---- MODULE Spec2Model ----
(***************************************************************************)
(* Verification model of the eo-datascience-cookbook repository.          *)
(*                                                                         *)
(* The repository is a Jupyter Book: a build configuration (_config.yml,   *)
(* the table of contents) and notebooks whose code cells are executed in   *)
(* document order by the book build.  The module models                    *)
(*   - the book build driven by the `execute` block of _config.yml,        *)
(*   - the kernels that run the code cells of the notebooks,               *)
(*   - the helper functions defined in the notebooks (unwrap_array,        *)
(*     make_gitlab_urls, load_image, lin2db, db2lin),                      *)
(*   - the order of unit conversions and means in the notebooks.           *)
(***************************************************************************)
EXTENDS Integers, Sequences, FiniteSets, TLC

VARIABLES
    \* ---- book build (src/_config.yml, table of contents) ----
    status,        \* "idle" | "building" | "success" | "failed"
    builds,        \* number of builds started so far
    nbPos,         \* position in Book of the notebook being processed
    cellPos,       \* index of the last code cell started in that notebook
    running,       \* TRUE while that code cell is in progress
    hung,          \* TRUE when the cell in progress will never return
    attempts,      \* [notebook -> [cell -> number of executions in this build]]
    raised,        \* set of <<notebook, cell>> that raised in this build
    completed,     \* [notebook -> sequence of cells completed in this build]
    codeVersion,   \* [notebook -> version of the notebook's code cells]
    builtVersion,  \* [notebook -> version of the code cells the build has read]
    cache,         \* [notebook -> set of code versions with an execution record]
    ranOn,         \* [notebook -> set of code versions that ran to completion]
    \* ---- kernels running the code cells of the notebooks ----
    korder,        \* [notebook -> sequence of the cells started so far]
    kbusy,         \* [notebook -> set of the cells in progress]
    kdone,         \* [notebook -> number of cells finished]
    ns,            \* [kernel -> set of <<name, notebook that bound it>>]
    nameErrors,    \* set of <<notebook, cell, name>>: reads of an unbound name
    \* ---- notebook 09: phase unwrapping ----
    upc,           \* the next data cell of notebook 09 to run
    ds,            \* the interferogram dataset read from the catalog
    mask,          \* the notebook's global `mask` (cell 3)
    subset,        \* the dataset `subset`
    lowres,        \* the dataset `lowres`
    snaphuCalls,   \* the calls of snaphu.unwrap made so far
    last,          \* the last call of unwrap_array: arguments and results
    \* ---- backscatter data of notebooks 02, 03 and the team-work notebook ----
    dpc,           \* per notebook, the next data cell to run
    cube,          \* sigma nought read from the catalog, in dB, [time][pixel]
    theta,         \* the incidence angle of the scene, in degrees
    d02,           \* data variables of notebook 02
    d03,           \* data variables of notebook 03
    dtw,           \* data variables of the team-work notebook
    means,         \* the means computed so far, with the scale of their data
    \* ---- notebook 04 and the land-cover notebook: functions and callbacks ----
    fpc,           \* the next cell of notebook 04 that calls make_gitlab_urls
    tree,          \* per sensor, the repository tree the GitLab server returns
    urls,          \* per calling cell, the list make_gitlab_urls returned
    ops04,         \* the operations notebook 04 has performed, in order
    lpc,           \* the position of the land-cover notebook
    ncalls,        \* how often hv.DynamicMap has invoked load_image
    lastCall,      \* the last invocation of load_image
    \* ---- single cells evaluated on the values of the model ----
    calc           \* the last cell evaluated: its inputs and its results

buildVars == <<status, builds, nbPos, cellPos, running, hung, attempts, raised,
               completed, codeVersion, builtVersion, cache, ranOn>>

kernelVars == <<korder, kbusy, kdone, ns, nameErrors>>

unwrapVars == <<upc, ds, mask, subset, lowres, snaphuCalls, last>>

dataVars == <<dpc, cube, theta, d02, d03, dtw, means>>

flowVars == <<fpc, tree, urls, ops04, lpc, ncalls, lastCall>>

vars == <<buildVars, kernelVars, unwrapVars, dataVars, flowVars, calc>>

\* what the steps of one part leave alone
notBuild == <<kernelVars, unwrapVars, dataVars, flowVars, calc>>

notKernel == <<buildVars, unwrapVars, dataVars, flowVars, calc>>

notUnwrap == <<buildVars, kernelVars, dataVars, flowVars, calc>>

notData == <<buildVars, kernelVars, unwrapVars, flowVars, calc>>

notFlow == <<buildVars, kernelVars, unwrapVars, dataVars, calc>>

notCalc == <<buildVars, kernelVars, unwrapVars, dataVars, flowVars>>

(***************************************************************************)
(* Bounds of the model.                                                    *)
(***************************************************************************)
MaxBuilds == 2
MaxVersion == 2
NumPixels == 3
NumTimes == 2
NumCells == 2
MaxTree == 2
MaxEvents == 2

\* the largest number of acquisitions in one month
MaxSamples == 3

(***************************************************************************)
(* The `execute` block of _config.yml and the sphinx flag.                 *)
(***************************************************************************)
execute_notebooks == "cache"

timeout == 600

allow_errors_mut == TRUE
allow_errors == FALSE

exclude_patterns == << <<"team_work", "*">>, <<"*_homework_exercise*">> >>

nb_execution_raise_on_error == TRUE

(***************************************************************************)
(* The notebooks of the book that the build model processes, in the order  *)
(* of the table of contents, followed by the team-work notebook.  A path   *)
(* is its directory name and the words of its file name (split at "_").    *)
(***************************************************************************)
Book == <<"nb02", "nb03", "team_work">>

Notebooks == {Book[i] : i \in 1..Len(Book)}

NbPath(n) ==
    CASE n = "nb02" -> [dir |-> "unit_01", words |-> <<"02", "in", "class", "exercise">>]
      [] n = "nb03" -> [dir |-> "unit_01", words |-> <<"03", "in", "class", "exercise">>]
      [] n = "team_work" -> [dir |-> "team_work", words |-> <<"data", "handling">>]

\* number of code cells of each notebook
NumCodeCells(n) ==
    CASE n = "nb02" -> 10
      [] n = "nb03" -> 7
      [] n = "team_work" -> 24

\* '*_homework_exercise*': some word, then "homework", then "exercise"
MatchesHomework(words) ==
    \E i \in 2..Len(words) - 1 :
        words[i] = "homework" /\ words[i + 1] = "exercise"

\* 'team_work/*': any file directly inside a directory named team_work
MatchesTeamWork(path) == path.dir = exclude_patterns[1][1]

Excluded_none(n) == FALSE

Excluded(n) == MatchesTeamWork(NbPath(n)) \/ MatchesHomework(NbPath(n).words)

Cells(n) == 1..NumCodeCells(n)

RECURSIVE UpTo(_)
UpTo(k) == IF k = 0 THEN <<>> ELSE Append(UpTo(k - 1), k)

CurNb == Book[nbPos]

\* cache mode: a notebook with an execution record for its code is not re-run
CacheHit_stale(n) == execute_notebooks = "cache" /\ cache[n] # {}
CacheHit(n) == execute_notebooks = "cache" /\ builtVersion[n] \in cache[n]

(***************************************************************************)
(* Book build.                                                             *)
(***************************************************************************)
BuildInit ==
    /\ status = "idle"
    /\ builds = 0
    /\ nbPos = 1
    /\ cellPos = 0
    /\ running = FALSE
    /\ hung = FALSE
    /\ attempts = [n \in Notebooks |-> [c \in Cells(n) |-> 0]]
    /\ raised = {}
    /\ completed = [n \in Notebooks |-> <<>>]
    /\ codeVersion = [n \in Notebooks |-> 1]
    /\ builtVersion = [n \in Notebooks |-> 1]
    /\ cache = [n \in Notebooks |-> {}]
    /\ ranOn = [n \in Notebooks |-> {}]

\* an author changes the code cells of a notebook between two builds
EditNotebook(n) ==
    /\ status # "building"
    /\ \E v \in (1..MaxVersion) \ {codeVersion[n]} :
           codeVersion' = [codeVersion EXCEPT ![n] = v]
    /\ UNCHANGED <<status, builds, nbPos, cellPos, running, hung, attempts,
                   raised, completed, builtVersion, cache, ranOn>>

StartBuild ==
    /\ status # "building"
    /\ builds < MaxBuilds
    /\ status' = "building"
    /\ builds' = builds + 1
    /\ nbPos' = 1
    /\ cellPos' = 0
    /\ running' = FALSE
    /\ hung' = FALSE
    /\ attempts' = [n \in Notebooks |-> [c \in Cells(n) |-> 0]]
    /\ raised' = {}
    /\ completed' = [n \in Notebooks |-> <<>>]
    /\ builtVersion' = codeVersion
    /\ UNCHANGED <<codeVersion, cache, ranOn>>

\* a notebook matching an exclude pattern is rendered without being executed
SkipExcluded ==
    /\ status = "building"
    /\ nbPos <= Len(Book)
    /\ Excluded(CurNb)
    /\ nbPos' = nbPos + 1
    /\ UNCHANGED <<status, builds, cellPos, running, hung, attempts, raised,
                   completed, codeVersion, builtVersion, cache, ranOn>>

\* execute_notebooks: cache -- outputs are taken from the execution record
UseCache ==
    /\ status = "building"
    /\ nbPos <= Len(Book)
    /\ ~Excluded(CurNb)
    /\ CacheHit(CurNb)
    /\ cellPos = 0
    /\ nbPos' = nbPos + 1
    /\ UNCHANGED <<status, builds, cellPos, running, hung, attempts, raised,
                   completed, codeVersion, builtVersion, cache, ranOn>>

\* the executor sends the next code cell to the kernel
StartCell ==
    /\ status = "building"
    /\ nbPos <= Len(Book)
    /\ ~Excluded(CurNb)
    /\ ~CacheHit(CurNb)
    /\ ~running
    /\ cellPos < NumCodeCells(CurNb)
    /\ cellPos' = cellPos + 1
    /\ running' = TRUE
    /\ attempts' = [attempts EXCEPT ![CurNb][cellPos + 1] = @ + 1]
    /\ UNCHANGED <<status, builds, nbPos, hung, raised, completed,
                   codeVersion, builtVersion, cache, ranOn>>

\* what the executor does once the cell in progress is over without stopping
\* the notebook: after the last cell the notebook is stored in the cache
AfterCell(n, ok) ==
    /\ running' = FALSE
    /\ hung' = FALSE
    /\ completed' = IF ok THEN [completed EXCEPT ![n] = Append(@, cellPos)]
                    ELSE completed
    /\ IF cellPos = NumCodeCells(n)
       THEN /\ nbPos' = nbPos + 1
            /\ cellPos' = 0
            /\ cache' = [cache EXCEPT ![n] = @ \cup {builtVersion[n]}]
            /\ ranOn' = IF completed'[n] = UpTo(NumCodeCells(n))
                        THEN [ranOn EXCEPT ![n] = @ \cup {builtVersion[n]}]
                        ELSE ranOn
       ELSE UNCHANGED <<nbPos, cellPos, cache, ranOn>>

\* the cell in progress returns without an exception
FinishCell ==
    /\ status = "building"
    /\ running
    /\ ~hung
    /\ AfterCell(CurNb, TRUE)
    /\ UNCHANGED <<status, builds, attempts, raised, codeVersion, builtVersion>>

\* what the executor does with an exception (or a timeout) of the cell in progress
OnCellError(n) ==
    /\ raised' = raised \cup {<<n, cellPos>>}
    /\ IF allow_errors
       THEN \* the error is stored in the cell's outputs, execution goes on
            /\ AfterCell(n, FALSE)
            /\ UNCHANGED status
       ELSE IF nb_execution_raise_on_error
       THEN \* the execution error is raised in the build
            /\ status' = "failed"
            /\ running' = FALSE
            /\ hung' = FALSE
            /\ UNCHANGED <<nbPos, cellPos, completed, cache, ranOn>>
       ELSE \* the notebook is abandoned with a warning, the build goes on
            /\ nbPos' = nbPos + 1
            /\ cellPos' = 0
            /\ running' = FALSE
            /\ hung' = FALSE
            /\ UNCHANGED <<status, completed, cache, ranOn>>

\* the cell in progress raises an unhandled exception
RaiseCell ==
    /\ status = "building"
    /\ running
    /\ ~hung
    /\ OnCellError(CurNb)
    /\ UNCHANGED <<builds, attempts, codeVersion, builtVersion>>

\* the cell in progress blocks for ever (a remote endpoint does not answer)
HangCell ==
    /\ status = "building"
    /\ running
    /\ ~hung
    /\ hung' = TRUE
    /\ UNCHANGED <<status, builds, nbPos, cellPos, running, attempts, raised,
                   completed, codeVersion, builtVersion, cache, ranOn>>

\* timeout: 600 -- a cell that has not returned after `timeout` seconds is
\* interrupted and counts as a cell that raised
TimeoutCell ==
    /\ status = "building"
    /\ running
    /\ hung
    /\ timeout > 0
    /\ OnCellError(CurNb)
    /\ UNCHANGED <<builds, attempts, codeVersion, builtVersion>>

\* every notebook of the book has been processed
FinishBuild ==
    /\ status = "building"
    /\ nbPos > Len(Book)
    /\ status' = "success"
    /\ UNCHANGED <<builds, nbPos, cellPos, running, hung, attempts, raised,
                   completed, codeVersion, builtVersion, cache, ranOn>>

BuildStep ==
    \/ SkipExcluded
    \/ UseCache
    \/ StartCell
    \/ FinishCell
    \/ RaiseCell
    \/ TimeoutCell
    \/ FinishBuild


(***************************************************************************)
(* Code cells of the notebooks: for every code cell, in document order,    *)
(* the global names it reads before binding them itself (a call of a       *)
(* function the notebook defines reads the globals of its body) and the    *)
(* global names it binds.                                                  *)
(***************************************************************************)
\* nb01: 18 code cells
Reads_nb01 ==
    <<
        {},
        {"pystac_client"},
        {"eodc_catalog"},
        {"eodc_catalog"},
        {},
        {},
        {},
        {"eodc_catalog", "colllection_id", "bounding_box", "time_range"},
        {"items_eodc"},
        {"item"},
        {"item"},
        {"folium", "latmin", "latmax", "lonmin", "lonmax",
         "area_of_interest", "items_eodc"},
        {"odc_stac", "items_eodc", "bounding_box"},
        {"sig0_dc"},
        {"folium", "area_of_interest", "items_eodc"},
        {"odc_stac", "items_eodc", "bands", "lonmin_smaller",
         "latmin_smaller", "lonmax_smaller", "latmax_smaller", "chunks"},
        {"item", "sig0_dc"},
        {"sig0_dc"}
    >>

Binds_nb01 ==
    <<
        {"folium", "pystac_client", "odc_stac"},
        {"eodc_catalog"},
        {"collections", "max_length", "collection"},
        {"colllection_id", "collection"},
        {"time_range"},
        {"latmin", "latmax", "lonmin", "lonmax", "bounding_box"},
        {"area_of_interest"},
        {"search", "items_eodc"},
        {"item"},
        {},
        {},
        {"map", "item", "image_url", "bounds"},
        {"bands", "crs", "res", "chunks", "sig0_dc"},
        {},
        {"latmin_smaller", "latmax_smaller", "lonmin_smaller",
         "lonmax_smaller", "smaller_bounding_box", "map", "item",
         "image_url", "bounds"},
        {"sig0_dc"},
        {"scale", "nodata", "sig0_dc"},
        {}
    >>

\* nb02: 10 code cells
Reads_nb02 ==
    <<
        {},
        {"pystac_client"},
        {"odc", "items", "bounds"},
        {"sig0_dc"},
        {"subset", "plt"},
        {},
        {"db2lin", "lin2db", "np"},
        {"sig0_dc", "lin2db", "np"},
        {"sig0_monthly", "db2lin"},
        {"lin_array", "lin2db", "np", "db_array"}
    >>

Binds_nb02 ==
    <<
        {"plt", "np", "odc", "pystac_client", "rioxarray"},
        {"latmin", "latmax", "lonmin", "lonmax", "bounds", "time_range",
         "items"},
        {"bands", "sig0_dc", "nodata", "scale"},
        {"subset"},
        {"aoi", "aoi_lin", "fig", "ax", "ax_ul", "ax_um", "ax_ur", "ax_ll",
         "ax_lm", "ax_lr", "title"},
        {"lin2db", "db2lin"},
        {"val1_db", "val2_db", "sum_db", "val1_lin", "val2_lin", "sum_lin"},
        {"sig0_lin", "sig0_lin_monthly", "sig0_monthly"},
        {"db_array", "lin_array"},
        {"lin_mean", "db_from_lin_mean", "db_mean"}
    >>

\* nb09: 17 code cells
Reads_nb09 ==
    <<
        {},
        {"intake"},
        {"sns", "ds"},
        {"plt", "ds", "mask", "cmap_cyc"},
        {"xr"},
        {"ds", "mask", "unwrap_array", "np", "snaphu", "clear_output"},
        {"plt", "subset", "cmap_cyc", "ds", "mask", "x0", "y0", "dx", "dy",
         "patches"},
        {"unwrap_array", "np", "snaphu", "clear_output", "subset"},
        {"plt", "subset", "cmap_cyc", "threshold1"},
        {"unwrap_array", "np", "snaphu", "clear_output", "subset", "plt",
         "cmap_cyc"},
        {"xr", "np", "subset"},
        {"disp_subset", "cmap_disp", "plt"},
        {"ds"},
        {"unwrap_array", "np", "snaphu", "clear_output", "lowres"},
        {"lowres", "cmap_cyc", "plt"},
        {"displacement", "np", "lowres", "cmap_disp", "plt"},
        {"plt", "subset", "cmap_cyc", "disp_subset", "cmap_disp", "lowres",
         "lowres_disp"}
    >>

Binds_nb09 ==
    <<
        {"cmc", "intake", "patches", "plt", "np", "sns", "snaphu", "xr",
         "clear_output"},
        {"uri", "cat", "ds"},
        {"cmap_cyc", "cmap_lin", "cmap_disp", "mask"},
        {"fig", "axs"},
        {"unwrap_array"},
        {"dx", "dy", "x0", "y0", "subsetting", "subset"},
        {"fig", "axs", "x_start", "y_start", "x_end", "y_end", "rect"},
        {"threshold1", "subset"},
        {"fig", "axs"},
        {"threshold2", "subset", "fig", "axs"},
        {"displacement", "disp_subset"},
        {},
        {"kernel_size", "lowres"},
        {"lowres"},
        {},
        {"lowres_disp"},
        {"fig", "axs", "ax"}
    >>


KNotebooks == {"nb01", "nb02", "nb09"}

CellReads(n) ==
    CASE n = "nb01" -> Reads_nb01
      [] n = "nb02" -> Reads_nb02
      [] n = "nb09" -> Reads_nb09

CellBinds(n) ==
    CASE n = "nb01" -> Binds_nb01
      [] n = "nb02" -> Binds_nb02
      [] n = "nb09" -> Binds_nb09

KNumCells(n) == Len(CellBinds(n))

\* every notebook is executed by a kernel of its own
KernelOf_shared(n) == "nb01"
KernelOf(n) == n

Kernels == {KernelOf(n) : n \in KNotebooks}

NamesIn(k) == {e[1] : e \in ns[k]}

\* the executor waits for the reply of a cell before it sends the next one
ExecutorReady_eager(n) == TRUE
ExecutorReady(n) == kbusy[n] = {}

\* the cell the executor sends next: the first one not yet started
NextCell(n) == Len(korder[n]) + 1

KernelInit ==
    /\ korder = [n \in KNotebooks |-> <<>>]
    /\ kbusy = [n \in KNotebooks |-> {}]
    /\ kdone = [n \in KNotebooks |-> 0]
    /\ ns = [k \in Kernels |-> {}]
    /\ nameErrors = {}

Stopped(n) == \E e \in nameErrors : e[1] = n

KStartCell(n) ==
    /\ ~Stopped(n)
    /\ ExecutorReady(n)
    /\ NextCell(n) <= KNumCells(n)
    /\ korder' = [korder EXCEPT ![n] = Append(@, NextCell(n))]
    /\ kbusy' = [kbusy EXCEPT ![n] = @ \cup {NextCell(n)}]
    /\ UNCHANGED <<kdone, ns, nameErrors>>

\* the cell runs in the namespace of the notebook's kernel: a read of a name
\* that is not bound raises NameError and stops the notebook, otherwise the
\* names the cell binds replace the earlier bindings of the same names
KFinishCell(n, c) ==
    /\ c \in kbusy[n]
    /\ kbusy' = [kbusy EXCEPT ![n] = @ \ {c}]
    /\ LET k == KernelOf(n)
           missing == CellReads(n)[c] \ NamesIn(k)
       IN IF missing # {}
          THEN /\ nameErrors' = nameErrors \cup {<<n, c, m>> : m \in missing}
               /\ UNCHANGED <<kdone, ns>>
          ELSE /\ ns' = [ns EXCEPT ![k] =
                            {e \in @ : e[1] \notin CellBinds(n)[c]}
                            \cup {<<b, n>> : b \in CellBinds(n)[c]}]
               /\ kdone' = [kdone EXCEPT ![n] = @ + 1]
               /\ UNCHANGED nameErrors
    /\ UNCHANGED korder

(***************************************************************************)
(* Notebook 09: phase unwrapping.  A raster is a sequence of pixels (one   *)
(* row); a floating point value is an integer or NaN, coherence is held in *)
(* tenths.                                                                 *)
(***************************************************************************)
\* the value standing for NaN, outside the range of every data value
NaN == -1000

\* an optional argument is None or a value; a scalar is held as <<value>>
None == <<>>

\* the scalar True, the default of the parameter `mask`
True == <<TRUE>>

IsNaN(v) == v = NaN

\* IEEE comparisons: every ordered comparison with NaN is false, != is true
Ne(a, b) == IF IsNaN(a) \/ IsNaN(b) THEN TRUE ELSE a # b

Ge_strict(a, b) == IF IsNaN(a) \/ IsNaN(b) THEN FALSE ELSE a > b
Ge(a, b) == IF IsNaN(a) \/ IsNaN(b) THEN FALSE ELSE a >= b

Le(a, b) == IF IsNaN(a) \/ IsNaN(b) THEN FALSE ELSE a <= b

\* xarray where(cond): the value where cond holds, NaN elsewhere
Where(arr, cond) == [i \in DOMAIN arr |-> IF cond[i] THEN arr[i] ELSE NaN]

And(m1, m2) == [i \in DOMAIN m1 |-> m1[i] /\ m2[i]]

\* coherence values of the model, in tenths, around the two thresholds
threshold1 == 3

threshold2 == 5

CohValues == {threshold1 - 1, threshold1, threshold2, threshold2 + 1}

\* a pixel without data is all zero; a pixel with data has a phase
NoDataPixel == [phase |-> 0, re |-> 0, coh |-> 0]

PixelValues == {NoDataPixel} \cup {[phase |-> 1, re |-> 2, coh |-> c] : c \in CohValues}

\* raw results of the external unwrapper in the model
UnwValues == {0, 7}

NoKwargs == [names |-> {}]

TileKwargs == [names |-> {"ntiles", "tile_overlap"}, ntiles |-> <<20, 30>>,
               tile_overlap |-> 10]

\* the defaults of unwrap_array's parameters
DefaultArgs ==
    [ouput_var |-> "unwrapped", mask |-> True, coherence |-> None,
     mask_nodata_value |-> 0, coh_low_threshold |-> None,
     coh_high_threshold |-> None, nlooks |-> 1, cost |-> "smooth",
     init |-> "mcf", kwargs |-> NoKwargs]

\* `mask = (data_arr.real != mask_nodata_value)` when mask is True
NoDataMask(data_arr, a) ==
    [i \in DOMAIN data_arr |-> Ne(data_arr[i], a.mask_nodata_value)]

\* `coh_mask = (coherence >= coh_low_threshold)`
CohLowMask(coherence, t) == [i \in DOMAIN coherence |-> Ge(coherence[i], t)]

\* `coh_mask = (coherence <= coh_high_threshold)`
CohHighMask(coherence, t) == [i \in DOMAIN coherence |-> Le(coherence[i], t)]

\* the mask of unwrap_array after the no-data step
MaskStep1(data_arr, a) ==
    IF a.mask = True THEN NoDataMask(data_arr, a) ELSE a.mask

\* ... after the coherence thresholds
MaskStep2(data_arr, a) ==
    LET m1 == MaskStep1(data_arr, a)
        m2 == IF a.coherence # None /\ a.coh_low_threshold # None
              THEN And(m1, CohLowMask(a.coherence, a.coh_low_threshold[1]))
              ELSE m1
    IN  IF a.coherence # None /\ a.coh_high_threshold # None
        THEN And(m2, CohHighMask(a.coherence, a.coh_high_threshold[1]))
        ELSE m2

\* the mask unwrap_array hands to snaphu.unwrap
CallMask_early(data_arr, a) == MaskStep1(data_arr, a)
CallMask(data_arr, a) == MaskStep2(data_arr, a)

\* the steps unwrap_array takes, in order: they depend on which optional
\* arguments are given, not on the pixel values
UnwrapSteps(a) ==
    (IF a.mask = True THEN <<"nodata_mask">> ELSE <<>>)
    \o (IF a.coherence # None /\ a.coh_low_threshold # None
        THEN <<"coh_low_mask">> ELSE <<>>)
    \o (IF a.coherence # None /\ a.coh_high_threshold # None
        THEN <<"coh_high_mask">> ELSE <<>>)
    \o <<"where">>
    \o (IF a.coherence = None THEN <<"ones_like">> ELSE <<>>)
    \o <<"snaphu.unwrap", "clear_output", "store", "where">>

\* unwrap_array(data, **a) with u the raw value the unwrapper returns:
\* the calls made to snaphu.unwrap, the mask applied to the stored output,
\* and the dataset returned
UnwrapArray(data, a, u) ==
    LET data_arr == data.re
        m        == MaskStep2(data_arr, a)
        masked   == Where(data_arr, m)
        corr     == IF a.coherence = None
                    THEN [i \in DOMAIN data_arr |-> 10]
                    ELSE a.coherence
        call     == [igram |-> masked, corr |-> corr, nlooks |-> a.nlooks,
                     cost |-> a.cost, init |-> a.init,
                     mask |-> CallMask(data_arr, a), kwargs |-> a.kwargs]
        unw      == [i \in DOMAIN data_arr |-> u]
        stored   == Where(unw, m)
    IN  [calls |-> <<call>>,
         outMask |-> m,
         unw |-> unw,
         steps |-> UnwrapSteps(a),
         data |-> [data EXCEPT !.out = (a.ouput_var :> stored) @@ @]]

\* subsetting(ds, x0, y0, dx, dy): ds.isel(x=slice(x0, x0 + dx), ...)
Subsetting(arr, x0, dx) ==
    [i \in 1..(IF Len(arr) - x0 < dx THEN Len(arr) - x0 ELSE dx) |-> arr[x0 + i]]

\* ds.where(mask) on every variable of the dataset
DatasetWhere(d, m) ==
    [phase |-> Where(d.phase, m), re |-> Where(d.re, m), coh |-> Where(d.coh, m),
     out |-> d.out]

kernel_size == 3

\* the median of an odd number of values
Median(vals) ==
    CHOOSE v \in {vals[i] : i \in DOMAIN vals} :
        /\ 2 * Cardinality({i \in DOMAIN vals : vals[i] < v}) < Len(vals)
        /\ 2 * Cardinality({i \in DOMAIN vals : vals[i] > v}) < Len(vals)

\* coarsen(x=kernel_size, boundary="trim").median()
Coarsen(arr) ==
    [j \in 1..(Len(arr) \div kernel_size) |->
        Median([k \in 1..kernel_size |-> arr[(j - 1) * kernel_size + k]])]

EmptyDataset == [phase |-> <<>>, re |-> <<>>, coh |-> <<>>, out |-> <<>>]

NoCall == [cell |-> 0]

UnwrapIdle ==
    /\ upc = "idle"
    /\ ds = EmptyDataset
    /\ mask = <<>>
    /\ subset = EmptyDataset
    /\ lowres = EmptyDataset
    /\ snaphuCalls = <<>>
    /\ last = NoCall

\* cell 2: the dataset is read from the catalog
UnwrapInit ==
    /\ upc = "cell3"
    /\ \E img \in [1..NumPixels -> PixelValues] :
           ds = [phase |-> [i \in 1..NumPixels |-> img[i].phase],
                 re |-> [i \in 1..NumPixels |-> img[i].re],
                 coh |-> [i \in 1..NumPixels |-> img[i].coh],
                 out |-> <<>>]
    /\ mask = <<>>
    /\ subset = EmptyDataset
    /\ lowres = EmptyDataset
    /\ snaphuCalls = <<>>
    /\ last = NoCall

\* cell 3: mask = ds.phase.where(ds.phase == 0, True, False).astype(bool)
\* keeps the phase where it is 0 and puts True elsewhere
Cell3 ==
    /\ upc = "cell3"
    /\ mask' = [i \in DOMAIN ds.phase |->
                   (IF ds.phase[i] = 0 THEN ds.phase[i] ELSE 1) # 0]
    /\ upc' = "cell9"
    /\ UNCHANGED <<ds, subset, lowres, snaphuCalls, last>>

\* one call `target = unwrap_array(data, **a)` made by cell c
CallUnwrap(c, data, a, u) ==
    LET r == UnwrapArray(data, a, u)
    IN  /\ snaphuCalls' = snaphuCalls \o r.calls
        /\ last' = [cell |-> c, args |-> a, input |-> data, calls |-> r.calls,
                    outMask |-> r.outMask, unw |-> r.unw, steps |-> r.steps,
                    out |-> r.data.out[a.ouput_var]]

\* cell 9: subset = subsetting(ds.where(mask), ...); unwrap_array(subset)
Cell9 ==
    /\ upc = "cell9"
    /\ \E u \in UnwValues :
         LET sub == DatasetWhere(ds, mask)
             data == [phase |-> Subsetting(sub.phase, 0, NumPixels),
                      re |-> Subsetting(sub.re, 0, NumPixels),
                      coh |-> Subsetting(sub.coh, 0, NumPixels),
                      out |-> <<>>]
             a == DefaultArgs
         IN  /\ CallUnwrap(9, data, a, u)
             /\ subset' = UnwrapArray(data, a, u).data
    /\ upc' = "cell13"
    /\ UNCHANGED <<ds, mask, lowres>>

\* cell 13: threshold1 = 0.3; unwrap_array(subset, coherence=subset.coh, ...)
Cell13 ==
    /\ upc = "cell13"
    /\ \E u \in UnwValues :
         LET a == [DefaultArgs EXCEPT !.coherence = subset.coh,
                                      !.coh_low_threshold = <<threshold1>>,
                                      !.ouput_var = "unwrapped_coh"]
         IN  /\ CallUnwrap(13, subset, a, u)
             /\ subset' = UnwrapArray(subset, a, u).data
    /\ upc' = "cell17"
    /\ UNCHANGED <<ds, mask, lowres>>

\* cell 17: threshold2 = 0.5; unwrap_array(subset, coherence=subset.coh, ...)
Cell17 ==
    /\ upc = "cell17"
    /\ \E u \in UnwValues :
         LET a == [DefaultArgs EXCEPT !.coherence = subset.coh,
                                      !.coh_low_threshold = <<threshold2>>,
                                      !.ouput_var = "unwrapped_coh2"]
         IN  /\ CallUnwrap(17, subset, a, u)
             /\ subset' = UnwrapArray(subset, a, u).data
    /\ upc' = "cell22"
    /\ UNCHANGED <<ds, mask, lowres>>

\* cell 22: lowres = ds.coarsen(x=kernel_size, ...).median()
Cell22 ==
    /\ upc = "cell22"
    /\ lowres' = [phase |-> Coarsen(ds.phase), re |-> Coarsen(ds.re),
                  coh |-> Coarsen(ds.coh), out |-> <<>>]
    /\ upc' = "cell23"
    /\ UNCHANGED <<ds, mask, subset, snaphuCalls, last>>

\* cell 23: unwrap_array(lowres, ntiles=(20, 30), tile_overlap=10,
\*                       coherence=lowres.coh, coh_low_threshold=0.3, ...)
Cell23 ==
    /\ upc = "cell23"
    /\ \E u \in UnwValues :
         LET a == [DefaultArgs EXCEPT !.coherence = lowres.coh,
                                      !.coh_low_threshold = <<threshold1>>,
                                      !.kwargs = TileKwargs]
         IN  /\ CallUnwrap(23, lowres, a, u)
             /\ lowres' = UnwrapArray(lowres, a, u).data
    /\ upc' = "done"
    /\ UNCHANGED <<ds, mask, subset>>

(***************************************************************************)
(* Backscatter values.  A value in decibel is held in thousandths of a dB, *)
(* a linear value in units of 1/One; logarithms are taken from a table of  *)
(* the mantissas 1.0, 1.1, ..., 9.9.                                       *)
(***************************************************************************)
One == 1000000

\* 1000 * log10(m / 10) for m = 10, ..., 99
Log10Tab ==
    <<0, 41, 79, 114, 146, 176, 204, 230, 255, 279,
       301, 322, 342, 362, 380, 398, 415, 431, 447, 462,
       477, 491, 505, 519, 531, 544, 556, 568, 580, 591,
       602, 613, 623, 633, 643, 653, 663, 672, 681, 690,
       699, 708, 716, 724, 732, 740, 748, 756, 763, 771,
       778, 785, 792, 799, 806, 813, 820, 826, 833, 839,
       845, 851, 857, 863, 869, 875, 881, 886, 892, 898,
       903, 908, 914, 919, 924, 929, 934, 940, 944, 949,
       954, 959, 964, 968, 973, 978, 982, 987, 991, 996>>

\* 1000 * log10(x / One), as np.log10; log10 of 0 is -inf
RECURSIVE Log10Milli(_)
Log10Milli(x) ==
    IF x <= 0 THEN -(1000 * One)
    ELSE IF x >= 10 * One THEN 1000 + Log10Milli(x \div 10)
    ELSE IF x < One THEN Log10Milli(x * 10) - 1000
    ELSE Log10Tab[(x * 10) \div One - 9]

RECURSIVE Pow(_, _)
Pow(b, k) == IF k = 0 THEN 1 ELSE b * Pow(b, k - 1)

\* One * 10 ** (e / 1000)
Pow10Milli(e) ==
    LET k == e \div 1000
        f == e % 1000
        m == CHOOSE n \in 10..99 :
                 /\ Log10Tab[n - 9] <= f
                 /\ n < 99 => Log10Tab[n - 8] > f
        mant == m * (One \div 10)
    IN  IF k >= 0 THEN mant * Pow(10, k) ELSE mant \div Pow(10, -k)

\* ln(10) in thousandths: np.log is the natural logarithm
Ln10Milli == 2303

\* 1000 * ln(x / One), as np.log
LnMilli(x) == (Log10Milli(x) * Ln10Milli) \div 1000

lin2db_ln(val) == 10 * LnMilli(val)

\* notebook 02: lin2db(val) = 10 * np.log10(val)
lin2db(val) == 10 * Log10Milli(val)

db2lin_abs(val) == Pow10Milli((IF val < 0 THEN -val ELSE val) \div 10)

\* notebook 02: db2lin(val) = 10 ** (val / 10)
db2lin(val) == Pow10Milli(val \div 10)

\* incidence angles of the model, in degrees, and 1000 * cos of them
Angles == {0, 60}

CosMilli(deg) == CASE deg = 0 -> 1000 [] deg = 60 -> 500

RECURSIVE SeqSum(_)
SeqSum(s) == IF s = <<>> THEN 0 ELSE s[1] + SeqSum(Tail(s))

Mean_first(s) == s[1]

\* arr.mean() of a one-dimensional array
Mean(s) == SeqSum(s) \div Len(s)

\* arr.mean(dim="time") of an array indexed [time][pixel]
MeanOverTime(v) ==
    [p \in DOMAIN v[1] |-> Mean([t \in DOMAIN v |-> v[t][p]])]

\* sigma nought values of the model, in thousandths of a dB
DbValues == {-10000, 0}

\* the months of the search interval "2022-07-01/2022-07-31"
SearchMonths == {7}

Unset == <<>>

\* elementwise operations on [time][pixel] and on [pixel] arrays
Db2Lin2(v) == [t \in DOMAIN v |-> [p \in DOMAIN v[t] |-> db2lin(v[t][p])]]

Lin2Db2(v) == [t \in DOMAIN v |-> [p \in DOMAIN v[t] |-> lin2db(v[t][p])]]

Db2Lin1(v) == [p \in DOMAIN v |-> db2lin(v[p])]

RECURSIVE SortedSeq(_)
SortedSeq(S) ==
    IF S = {} THEN <<>>
    ELSE LET lo == CHOOSE x \in S : \A y \in S : x <= y
         IN  <<lo>> \o SortedSeq(S \ {lo})

\* arr.resample(time="1ME").mean(): one time step per month with data
ResampleMonthlyMean(a) ==
    LET ms == SortedSeq({a.months[t] : t \in DOMAIN a.months})
        Of(mo) == SortedSeq({t \in DOMAIN a.months : a.months[t] = mo})
    IN  [unit |-> a.unit,
         months |-> ms,
         v |-> [i \in DOMAIN ms |->
                   MeanOverTime([k \in DOMAIN Of(ms[i]) |-> a.v[Of(ms[i])[k]]])]]

Abs(x) == IF x < 0 THEN -x ELSE x

\* arr.sel(time=..., method="nearest") for a date in month mo
SelNearest(a, mo) ==
    LET t == CHOOSE i \in DOMAIN a.months :
                 \A j \in DOMAIN a.months :
                     Abs(a.months[i] - mo) <= Abs(a.months[j] - mo)
    IN  [unit |-> a.unit, v |-> a.v[t]]

\* one call of mean() by cell c of notebook n on data of scale unit
MeanCall(n, c, var, unit) == [nb |-> n, cell |-> c, var |-> var, unit |-> unit]

Names02 == [sig0_dc |-> Unset, sig0_lin |-> Unset, sig0_lin_monthly |-> Unset,
            sig0_monthly |-> Unset, db_array |-> Unset, lin_array |-> Unset,
            lin_mean |-> Unset, db_from_lin_mean |-> Unset, db_mean |-> Unset]

Names03 == [coef_dc |-> Unset, sig0_db |-> Unset, sig0_lin |-> Unset,
            gam0_lin |-> Unset, gam0_db |-> Unset]

NamesTw == [sig0_dc |-> Unset, sig0_mean |-> Unset, s1_day |-> Unset]

DataIdle ==
    /\ dpc = [nb02 |-> "idle", nb03 |-> "idle", team_work |-> "idle"]
    /\ cube = <<>>
    /\ theta = 0
    /\ d02 = Names02
    /\ d03 = Names03
    /\ dtw = NamesTw
    /\ means = {}

\* the state after the loading cells: notebook 02 cell 4, notebook 03 cell 8
\* and team-work cell 8 hold sigma nought in dB
DataInit ==
    /\ dpc = [nb02 |-> "cell14", nb03 |-> "cell10", team_work |-> "cell9"]
    /\ cube \in [1..NumTimes -> [1..NumCells -> DbValues]]
    /\ theta \in Angles
    /\ \E mo \in [1..NumTimes -> SearchMonths] :
           d02 = [Names02 EXCEPT !.sig0_dc = [unit |-> "dB", months |-> mo, v |-> cube]]
    /\ d03 = [Names03 EXCEPT !.coef_dc =
                 [unit |-> "dB", sig0_gtc |-> cube[1],
                  incidence_angle |-> [p \in 1..NumCells |-> theta]]]
    /\ dtw = [NamesTw EXCEPT !.sig0_dc = [unit |-> "dB", v |-> cube]]
    /\ means = {}

\* notebook 02, cell 14: monthly means in linear scale, then back to dB
Nb02Cell14 ==
    /\ dpc.nb02 = "cell14"
    /\ LET sig0_dc == d02.sig0_dc
           sig0_lin == [unit |-> "lin", months |-> sig0_dc.months,
                        v |-> [t \in DOMAIN sig0_dc.v |->
                                  [p \in DOMAIN sig0_dc.v[t] |->
                                      Pow10Milli(sig0_dc.v[t][p] \div 10)]]]
           sig0_lin_monthly == ResampleMonthlyMean(sig0_lin)
           sig0_monthly == [unit |-> "dB", months |-> sig0_lin_monthly.months,
                            v |-> Lin2Db2(sig0_lin_monthly.v)]
       IN  /\ d02' = [d02 EXCEPT !.sig0_lin = sig0_lin,
                                 !.sig0_lin_monthly = sig0_lin_monthly,
                                 !.sig0_monthly = sig0_monthly]
           /\ means' = means \cup {MeanCall("nb02", 14, "sig0_lin", sig0_lin.unit)}
    /\ dpc' = [dpc EXCEPT !.nb02 = "cell16"]
    /\ UNCHANGED <<cube, theta, d03, dtw>>

\* notebook 02, cell 16: the month of 2022-07-30 in dB and in linear scale
Nb02Cell16 ==
    /\ dpc.nb02 = "cell16"
    /\ LET db_array == SelNearest(d02.sig0_monthly, 7)
           lin_array == [unit |-> "lin", v |-> Db2Lin1(db_array.v)]
       IN  d02' = [d02 EXCEPT !.db_array = db_array, !.lin_array = lin_array]
    /\ dpc' = [dpc EXCEPT !.nb02 = "cell17"]
    /\ UNCHANGED <<cube, theta, d03, dtw, means>>

\* notebook 02, cell 17: the scene mean of the linear and of the dB values
Nb02Cell17 ==
    /\ dpc.nb02 = "cell17"
    /\ LET lin_mean == [unit |-> d02.lin_array.unit, v |-> Mean(d02.lin_array.v)]
           db_from_lin_mean == [unit |-> "dB", v |-> lin2db(lin_mean.v)]
           db_mean == [unit |-> d02.db_array.unit, v |-> Mean(d02.db_array.v)]
       IN  /\ d02' = [d02 EXCEPT !.lin_mean = lin_mean,
                                 !.db_from_lin_mean = db_from_lin_mean,
                                 !.db_mean = db_mean]
           /\ means' = means \cup {MeanCall("nb02", 17, "lin_array", d02.lin_array.unit),
                                   MeanCall("nb02", 17, "db_array", d02.db_array.unit)}
    /\ dpc' = [dpc EXCEPT !.nb02 = "done"]
    /\ UNCHANGED <<cube, theta, d03, dtw>>

\* notebook 03, cell 10: sigma nought to gamma nought
\*   sig0_db  = coef_dc.sel(band="sig0_gtc") / 10
\*   sig0_lin = 10 ** (coef_dc.sel(band="sig0_gtc") / 10)
\*   gam0_lin = sig0_lin / np.cos(np.radians(coef_dc.sel(band="incidence_angle")))
\*   gam0_db  = 10 * np.log(gam0_lin)
Nb03Cell10 ==
    /\ dpc.nb03 = "cell10"
    /\ LET sig0 == d03.coef_dc.sig0_gtc
           inc  == d03.coef_dc.incidence_angle
           sig0_db  == [p \in DOMAIN sig0 |-> sig0[p] \div 10]
           sig0_lin == [p \in DOMAIN sig0 |-> Pow10Milli(sig0[p] \div 10)]
           gam0_lin == [p \in DOMAIN sig0 |->
                           (sig0_lin[p] * 1000) \div CosMilli(inc[p])]
           gam0_db  == [p \in DOMAIN sig0 |-> 10 * LnMilli(gam0_lin[p])]
       IN  d03' = [d03 EXCEPT !.sig0_db = sig0_db, !.sig0_lin = sig0_lin,
                              !.gam0_lin = gam0_lin, !.gam0_db = gam0_db]
    /\ dpc' = [dpc EXCEPT !.nb03 = "done"]
    /\ UNCHANGED <<cube, theta, d02, dtw, means>>

\* team-work notebook, cell 9: sig0_mean = sig0_dc.mean(dim="time")
TwCell9 ==
    /\ dpc.team_work = "cell9"
    /\ dtw' = [dtw EXCEPT !.sig0_mean =
                  [unit |-> dtw.sig0_dc.unit, v |-> MeanOverTime(dtw.sig0_dc.v)]]
    /\ means' = means \cup {MeanCall("team_work", 9, "sig0_dc", dtw.sig0_dc.unit)}
    /\ dpc' = [dpc EXCEPT !.team_work = "cell22"]
    /\ UNCHANGED <<cube, theta, d02, d03>>

\* acube_s1_preprocess(x): `return x * 0.01`, the files hold dB in hundredths
acube_s1_preprocess(x) == x * 10

\* team-work notebook, cell 22: s1_day = xr.open_mfdataset(...)
TwCell22 ==
    /\ dpc.team_work = "cell22"
    /\ dtw' = [dtw EXCEPT !.s1_day =
                  [unit |-> "dB",
                   v |-> [t \in DOMAIN cube |-> [p \in DOMAIN cube[t] |->
                             acube_s1_preprocess(cube[t][p] \div 10)]]]]
    /\ dpc' = [dpc EXCEPT !.team_work = "cell23"]
    /\ UNCHANGED <<cube, theta, d02, d03, means>>

\* team-work notebook, cell 23: s1_day = s1_day.mean(dim="time")
TwCell23 ==
    /\ dpc.team_work = "cell23"
    /\ dtw' = [dtw EXCEPT !.s1_day =
                  [unit |-> dtw.s1_day.unit, v |-> MeanOverTime(dtw.s1_day.v)]]
    /\ means' = means \cup {MeanCall("team_work", 23, "s1_day", dtw.s1_day.unit)}
    /\ dpc' = [dpc EXCEPT !.team_work = "done"]
    /\ UNCHANGED <<cube, theta, d02, d03>>

(***************************************************************************)
(* Notebook 04: make_gitlab_urls, and the land-cover notebook: load_image, *)
(* the callback of hv.DynamicMap.                                          *)
(***************************************************************************)
Sensors == {"sentinel-1", "alos-2"}

\* an entry of the repository tree below a sensor's directory; its path is
\* held as the segments between "/" and the extension of the last one
TreeEntries(sensor) ==
    {[path |-> [segs |-> <<sensor, n>>, ext |-> e]] :
        n \in {"a", "b"}, e \in {".tif", ".tif.aux.xml"}}

\* the trees of at most MaxTree distinct entries
Trees(sensor) ==
    {t \in UNION {[1..k -> TreeEntries(sensor)] : k \in 0..MaxTree} :
        \A i, j \in DOMAIN t : i # j => t[i] # t[j]}

\* str.endswith
EndsWith_any(path, suffix) == TRUE
EndsWith(path, suffix) == path.ext = suffix

\* urllib.parse.quote_plus: "/" becomes "%2F"
QuotePlus(path) == [segs |-> path.segs, sep |-> "%2F", ext |-> path.ext]

gitlab_root == "https://git.geo.tuwien.ac.at/api/v4/projects/1264/repository/files/"

gitlab_end == "/raw?ref=main&lfs=true"

\* the loop of make_gitlab_urls over the entries not yet visited
RECURSIVE UrlLoop(_, _, _)
UrlLoop(entries, l, ops) ==
    IF entries = <<>> THEN [l |-> l, ops |-> ops]
    ELSE LET object == Head(entries)
         IN  IF EndsWith(object.path, ".tif")
             THEN UrlLoop(Tail(entries),
                          Append(l, <<gitlab_root, QuotePlus(object.path), gitlab_end>>),
                          ops \o <<"endswith", "quote_plus", "append">>)
             ELSE UrlLoop(Tail(entries), l, ops \o <<"endswith">>)

\* make_gitlab_urls(sensor) on the repository tree t: the list returned and
\* the operations performed
make_gitlab_urls(sensor, t) ==
    UrlLoop(t[sensor], <<>>, <<"gitlab.Gitlab", "projects.get", "repository_tree">>)

FlowIdle ==
    /\ fpc = "idle"
    /\ tree = [s \in Sensors |-> <<>>]
    /\ urls = [c \in {5, 9, 15} |-> <<>>]
    /\ ops04 = <<>>
    /\ lpc = "idle"
    /\ ncalls = 0
    /\ lastCall = [ops |-> <<>>]

FlowInit ==
    /\ fpc = "cell5"
    /\ \E t1 \in Trees("sentinel-1") : \E t2 \in Trees("alos-2") :
           tree = [s \in Sensors |-> IF s = "sentinel-1" THEN t1 ELSE t2]
    /\ urls = [c \in {5, 9, 15} |-> <<>>]
    /\ ops04 = <<>>
    /\ lpc = "cell21"
    /\ ncalls = 0
    /\ lastCall = [ops |-> <<>>]

\* a cell `xr.open_mfdataset(make_gitlab_urls(sensor), ...)`
UrlCell(c, sensor, next) ==
    /\ fpc = next[1]
    /\ LET r == make_gitlab_urls(sensor, tree)
       IN  /\ urls' = [urls EXCEPT ![c] = r.l]
           /\ ops04' = ops04 \o r.ops \o <<"open_mfdataset">>
    /\ fpc' = next[2]
    /\ UNCHANGED <<tree, lpc, ncalls, lastCall>>

Nb04Cell5 == UrlCell(5, "sentinel-1", <<"cell5", "cell9">>)

Nb04Cell9 == UrlCell(9, "sentinel-1", <<"cell9", "cell15">>)

Nb04Cell15 == UrlCell(15, "alos-2", <<"cell15", "done">>)

\* the keys of the dictionary `land_cover`: the complete land cover and one
\* key "<code> <label>" per land cover code present
CompleteLandCover == [code |-> "", label |-> "Complete Land Cover"]

LandCoverKeys ==
    {CompleteLandCover, [code |-> "12", label |-> "Non-irrigated arable land"]}

\* int(land_cover.split()[0])
IntOfCode(code) == CASE code = "12" -> 12 [] OTHER -> 0

\* the time steps of var_ds.sig0, by index
TimeKeys == {1, 2}

\* the values of the stream RangeXY: None until the plot is zoomed
RangeValues == {None, <<0, 1>>}

\* the truth value of a range in `if x_range and y_range`
Truthy(r) == r # None /\ r # <<>>

\* load_image(time, land_cover, x_range, y_range): what it selects and the
\* operations it performs
load_image(time, land_cover, x_range, y_range) ==
    LET complete == land_cover = CompleteLandCover
        crop == Truthy(x_range) /\ Truthy(y_range)
    IN  [time |-> time, land_cover |-> land_cover, x_range |-> x_range,
         y_range |-> y_range,
         masked |-> ~complete,
         land_cover_value |-> IF complete THEN 0 ELSE IntOfCode(land_cover.code),
         cropped |-> crop,
         ops |-> (IF complete THEN <<"sel">> ELSE <<"split", "int", "==", "sel", "where">>)
                 \o <<"hv.Dataset", "to">>
                 \o (IF crop THEN <<"select">> ELSE <<>>)
                 \o <<"hv.Image">>]

\* cell 21 of the land-cover notebook defines load_image, builds the
\* hv.DynamicMap and displays it: the first frame is rendered for the first
\* key of each dimension, the ranges still None
LcCell21 ==
    /\ lpc = "cell21"
    /\ lastCall' = load_image(1, CompleteLandCover, None, None)
    /\ ncalls' = 1
    /\ lpc' = "displayed"
    /\ UNCHANGED <<fpc, tree, urls, ops04>>

\* a later event: a widget selects another time or land cover, or the plot
\* is zoomed; hv.DynamicMap invokes the callback again
WidgetEvent ==
    /\ lpc = "displayed"
    /\ ncalls <= MaxEvents
    /\ \E time \in TimeKeys : \E land_cover \in LandCoverKeys :
       \E x_range \in RangeValues : \E y_range \in RangeValues :
           lastCall' = load_image(time, land_cover, x_range, y_range)
    /\ ncalls' = ncalls + 1
    /\ UNCHANGED <<fpc, tree, urls, ops04, lpc>>

(***************************************************************************)
(* Single cells of the notebooks, each evaluated on every input of the     *)
(* model: the resampling cells, the conversion functions of notebook 02    *)
(* and the monthly median of notebook 04.                                  *)
(***************************************************************************)
CalcIdle == calc = [cell |-> "none"]

\* the offsets of the requested pixel grid against the grid of the source,
\* in tenths of a pixel
GridOffsets == {0, 5}

\* bilinear resampling of one image row: the pixel between the source
\* pixels i and i + 1, w tenths of a pixel away from pixel i
Bilinear_nearest(v, w) == [i \in 1..(Len(v) - 1) |-> v[i]]
Bilinear(v, w) ==
    [i \in 1..(Len(v) - 1) |-> (v[i] * (10 - w) + v[i + 1] * w) \div 10]

\* the rows of backscatter a resampling cell can meet, in dB
SourceRows == [1..(NumCells + 1) -> DbValues]

\* notebook 04, cell 19:
\*   alos_ds_lin = 10 ** (alos_ds / 10)
\*   alos_ds_lin = alos_ds_lin.rio.reproject_match(s1_ds, resampling=Resampling.bilinear)
\*   alos_ds = 10 * np.log10(alos_ds_lin)
Nb04Cell19 ==
    \E alos_ds \in SourceRows : \E w \in GridOffsets :
        LET alos_ds_lin == [i \in DOMAIN alos_ds |-> Pow10Milli(alos_ds[i] \div 10)]
            matched == Bilinear(alos_ds_lin, w)
        IN  calc' = [cell |-> "nb04.19", src |-> alos_ds, offset |-> w,
                     unit |-> "lin", resampled |-> matched,
                     out |-> [i \in DOMAIN matched |-> 10 * Log10Milli(matched[i])]]

\* notebook 01, cell 25: sig0_dc = odc_stac.load(..., resampling="bilinear")
\* on the items as stored, dB times the scale factor 10
Nb01Cell25 ==
    \E sig0 \in SourceRows : \E w \in GridOffsets :
        LET stored == [i \in DOMAIN sig0 |-> sig0[i] \div 100]
            sig0_dc == Bilinear(stored, w)
        IN  calc' = [cell |-> "nb01.25", src |-> sig0, offset |-> w,
                     unit |-> "dB", resampled |-> sig0_dc,
                     out |-> [i \in DOMAIN sig0_dc |-> sig0_dc[i] * 100]]

\* team-work notebook, cell 8: odc_stac.load(..., resampling="bilinear"),
\* then sig0_dc = sig0_dc.where(sig0_dc != nodata) / scale
TwCell8 ==
    \E sig0 \in SourceRows : \E w \in GridOffsets :
        LET stored == [i \in DOMAIN sig0 |-> sig0[i] \div 100]
            loaded == Bilinear(stored, w)
            scale == 10
        IN  calc' = [cell |-> "tw.8", src |-> sig0, offset |-> w,
                     unit |-> "dB", resampled |-> loaded,
                     out |-> [i \in DOMAIN loaded |-> (loaded[i] * 1000) \div scale]]

\* linear values with a mantissa of two digits, from 0.1 to 9.9
LinInputs == {m * (One \div 100) : m \in 10..99} \cup {m * (One \div 10) : m \in 10..99}

\* dB values from -20 dB to 10 dB in steps of half a dB
DbInputs == {d * 500 : d \in -40..20}

\* the step of the logarithm table, in thousandths of a dB: db2lin keeps
\* two digits of the mantissa
DbResolution == 10 * (Log10Tab[2] - Log10Tab[1])

\* notebook 02, cell 8: a call of lin2db
CallLin2db ==
    \E val \in LinInputs :
        calc' = [cell |-> "lin2db", arg |-> val, out |-> lin2db(val)]

\* notebook 02, cell 10: a call of db2lin
CallDb2lin ==
    \E val \in DbInputs :
        calc' = [cell |-> "db2lin", arg |-> val, out |-> db2lin(val)]

\* dB values whose linear values 0.2, 0.5, 1, 2, 5 and 10 are exact in the
\* model, so that their products and quotients are exact as well
DbLattice == {-6990, -3010, 0, 3010, 6990, 10000}

\* product and quotient of two linear values
LinMul(x, y) == (x \div 1000) * (y \div 1000)

LinDiv(x, y) == (x * 100) \div (y \div 10000)

\* notebook 02, cell 12: the sum of two values in dB and of their linear
\* values
Nb02Cell12 ==
    \E val1_db \in DbLattice : \E val2_db \in DbLattice :
        LET sum_db == val1_db + val2_db
            val1_lin == db2lin(val1_db)
            val2_lin == db2lin(val2_db)
            sum_lin == val1_lin + val2_lin
        IN  calc' = [cell |-> "nb02.12", val1_db |-> val1_db, val2_db |-> val2_db,
                     sum_db |-> sum_db, val1_lin |-> val1_lin, val2_lin |-> val2_lin,
                     sum_lin |-> sum_lin, out |-> lin2db(sum_lin)]

\* the values of a sequence in ascending order
RECURSIVE SortVals(_)
SortVals(s) ==
    IF s = <<>> THEN <<>>
    ELSE LET i == CHOOSE k \in DOMAIN s : \A j \in DOMAIN s : s[k] <= s[j]
         IN  <<s[i]>> \o SortVals([k \in 1..(Len(s) - 1) |->
                                      IF k < i THEN s[k] ELSE s[k + 1]])

\* median(skipna=True) of the samples of one month: the middle value of
\* the valid samples, the mean of the two middle values when their number
\* is even, NaN when there is none
nanmedian(samples) ==
    LET valid == SortVals(SelectSeq(samples, LAMBDA x : ~IsNaN(x)))
        n == Len(valid)
    IN  IF n = 0 THEN NaN
        ELSE IF n % 2 = 1 THEN valid[(n + 1) \div 2]
        ELSE (valid[n \div 2] + valid[n \div 2 + 1]) \div 2

\* notebook 04, cell 27, for one pixel and one month:
\*   fused_da.resample(time="ME", skipna=True).median().compute()
Nb04Cell27 ==
    \E n \in 1..MaxSamples : \E samples \in [1..n -> DbValues \cup {NaN}] :
        calc' = [cell |-> "nb04.27", samples |-> samples,
                 out |-> nanmedian(samples)]

Init == BuildInit /\ KernelInit /\ UnwrapIdle /\ DataIdle /\ FlowIdle /\ CalcIdle

\* the book build: the executor of the configured book
Next ==
    \/ \E n \in Notebooks : EditNotebook(n) /\ UNCHANGED notBuild
    \/ StartBuild /\ UNCHANGED notBuild
    \/ SkipExcluded /\ UNCHANGED notBuild
    \/ UseCache /\ UNCHANGED notBuild
    \/ StartCell /\ UNCHANGED notBuild
    \/ FinishCell /\ UNCHANGED notBuild
    \/ RaiseCell /\ UNCHANGED notBuild
    \/ HangCell /\ UNCHANGED notBuild
    \/ TimeoutCell /\ UNCHANGED notBuild
    \/ FinishBuild /\ UNCHANGED notBuild

Spec == Init /\ [][Next]_vars

\* the executor and the kernel keep running while the build is in progress
FairSpec == Spec /\ WF_vars(BuildStep /\ UNCHANGED notBuild)

\* the kernels of the notebooks, in every interleaving of their cells
KernelNext ==
    \/ \E n \in KNotebooks : KStartCell(n) /\ UNCHANGED notKernel
    \/ \E n \in KNotebooks : \E c \in 1..KNumCells(n) :
           KFinishCell(n, c) /\ UNCHANGED notKernel

KernelSpec == Init /\ [][KernelNext]_vars

\* the data cells of notebook 09 on every raster of the model
UnwrapSpecInit == BuildInit /\ KernelInit /\ UnwrapInit /\ DataIdle /\ FlowIdle /\ CalcIdle

UnwrapNext ==
    \/ Cell3 /\ UNCHANGED notUnwrap
    \/ Cell9 /\ UNCHANGED notUnwrap
    \/ Cell13 /\ UNCHANGED notUnwrap
    \/ Cell17 /\ UNCHANGED notUnwrap
    \/ Cell22 /\ UNCHANGED notUnwrap
    \/ Cell23 /\ UNCHANGED notUnwrap

UnwrapSpec == UnwrapSpecInit /\ [][UnwrapNext]_vars

\* the data cells of notebooks 02, 03 and of the team-work notebook
DataSpecInit == BuildInit /\ KernelInit /\ UnwrapIdle /\ DataInit /\ FlowIdle /\ CalcIdle

DataNext ==
    \/ Nb02Cell14 /\ UNCHANGED notData
    \/ Nb02Cell16 /\ UNCHANGED notData
    \/ Nb02Cell17 /\ UNCHANGED notData
    \/ Nb03Cell10 /\ UNCHANGED notData
    \/ TwCell9 /\ UNCHANGED notData
    \/ TwCell22 /\ UNCHANGED notData
    \/ TwCell23 /\ UNCHANGED notData

DataSpec == DataSpecInit /\ [][DataNext]_vars

\* notebook 04 and the land-cover notebook, on every repository tree and
\* every sequence of events of the model
FlowSpecInit == BuildInit /\ KernelInit /\ UnwrapIdle /\ DataIdle /\ FlowInit /\ CalcIdle

FlowNext ==
    \/ Nb04Cell5 /\ UNCHANGED notFlow
    \/ Nb04Cell9 /\ UNCHANGED notFlow
    \/ Nb04Cell15 /\ UNCHANGED notFlow
    \/ LcCell21 /\ UNCHANGED notFlow
    \/ WidgetEvent /\ UNCHANGED notFlow

FlowSpec == FlowSpecInit /\ [][FlowNext]_vars

\* single cells, on every input of the model
CalcNext ==
    \/ Nb04Cell19 /\ UNCHANGED notCalc
    \/ Nb01Cell25 /\ UNCHANGED notCalc
    \/ TwCell8 /\ UNCHANGED notCalc
    \/ CallLin2db /\ UNCHANGED notCalc
    \/ CallDb2lin /\ UNCHANGED notCalc
    \/ Nb02Cell12 /\ UNCHANGED notCalc
    \/ Nb04Cell27 /\ UNCHANGED notCalc

CalcSpec == Init /\ [][CalcNext]_vars

(***************************************************************************)
(* Claims about the book build.                                            *)
(***************************************************************************)

\* C1: with allow_errors False and nb_execution_raise_on_error true, once a
\* cell of an executed notebook has raised, the build is in the failed state
\* and never successful; no cell is executed twice in a build, and after
\* the exception no further cell is executed in that build (no retry, no
\* recovery, no partial success).
C1_ErrorFailsBuild ==
    /\ [](raised # {} => status = "failed")
    /\ [](\A n \in Notebooks : \A c \in Cells(n) : attempts[n][c] <= 1)
    /\ [][(raised # {} /\ raised' # {}) => attempts' = attempts]_vars

C1_Witness ==
    /\ status = "failed"
    /\ raised = {<<"nb03", 4>>}
    /\ completed["nb02"] = UpTo(NumCodeCells("nb02"))

\* C2: every build that is in progress ends as success or failure; cells of
\* a notebook complete in document order; and a build becomes a success
\* only when every notebook that is not excluded has run all of its code
\* cells to completion on the code it has now (in this build, or in the
\* build that wrote the execution record the cache mode reuses).
C2_BuildTerminates ==
    /\ (status = "building") ~> (status \in {"success", "failed"})
    /\ [](\A n \in Notebooks : completed[n] = UpTo(Len(completed[n])))
    /\ [](status = "success" =>
            \A n \in Notebooks : ~Excluded(n) => builtVersion[n] \in ranOn[n])

C2_Witness ==
    /\ status = "success"
    /\ builds = 2
    /\ builtVersion["nb03"] = 2
    /\ completed["nb02"] = <<>>
    /\ completed["nb03"] = UpTo(NumCodeCells("nb03"))

(***************************************************************************)
(* Claims about the kernels.                                               *)
(***************************************************************************)

\* C3: within one notebook the code cells run one at a time in document
\* order: at most one cell is in progress, a cell starts only after every
\* earlier cell has finished, and no cell reads a name that an earlier cell
\* of the same notebook has not bound.
C3_CellsSequential ==
    \A n \in KNotebooks :
        /\ Cardinality(kbusy[n]) <= 1
        /\ korder[n] = UpTo(Len(korder[n]))
        /\ kbusy[n] # {} => kbusy[n] = {kdone[n] + 1}
        /\ Len(korder[n]) - kdone[n] = Cardinality(kbusy[n])
        /\ ~Stopped(n)

C3_Witness ==
    /\ kdone["nb09"] = KNumCells("nb09")
    /\ kdone["nb01"] = KNumCells("nb01")
    /\ kbusy["nb02"] = {8}

\* C5: there is no data flow between notebooks: every name in the namespace
\* a notebook runs in was bound by that notebook, every name a cell reads is
\* found there, and when a notebook has run all its cells its namespace
\* holds exactly the names its own cells bind, whatever the order in which
\* the cells of the notebooks were executed.
C5_NoFlowBetweenNotebooks ==
    \A n \in KNotebooks :
        /\ \A e \in ns[KernelOf(n)] : e[2] = n
        /\ ~Stopped(n)
        /\ kdone[n] = KNumCells(n) =>
               NamesIn(KernelOf(n)) =
                   UNION {CellBinds(n)[c] : c \in 1..KNumCells(n)}
        /\ \A c \in kbusy[n] :
               /\ CellReads(n)[c] \subseteq NamesIn(KernelOf(n))
               /\ NamesIn(KernelOf(n)) =
                      UNION {CellBinds(n)[d] : d \in 1..(c - 1)}

C5_Witness ==
    /\ kdone["nb02"] = KNumCells("nb02")
    /\ kdone["nb09"] = 2
    /\ kbusy["nb09"] = {3}
    /\ <<"subset", "nb02">> \in ns[KernelOf("nb02")]
    /\ <<"ds", "nb09">> \in ns[KernelOf("nb09")]


\* the calls of unwrap_array the cells run so far have made
UnwrapCallsDone ==
    CASE upc \in {"idle", "cell3", "cell9"} -> 0
      [] upc = "cell13" -> 1
      [] upc = "cell17" -> 2
      [] upc \in {"cell22", "cell23"} -> 3
      [] upc = "done" -> 4

\* the position of the first step named s in a sequence of steps, 0 if none
FirstStep(steps, s) ==
    IF \E i \in DOMAIN steps : steps[i] = s
    THEN CHOOSE i \in DOMAIN steps :
             steps[i] = s /\ \A j \in 1..(i - 1) : steps[j] # s
    ELSE 0

\* C7: every call of unwrap_array makes exactly one call of snaphu.unwrap,
\* after all the mask steps; nlooks, cost, init and the keyword arguments
\* reach it unchanged; the mask it receives is the fully constructed one and
\* is the mask applied to the stored output afterwards.
C7_ThinWrapper ==
    /\ Len(snaphuCalls) = UnwrapCallsDone
    /\ last.cell # 0 =>
         LET call == last.calls[1]
             at   == FirstStep(last.steps, "snaphu.unwrap")
         IN  /\ Len(last.calls) = 1
             /\ call = snaphuCalls[Len(snaphuCalls)]
             /\ Cardinality({i \in DOMAIN last.steps :
                                last.steps[i] = "snaphu.unwrap"}) = 1
             /\ \A i \in DOMAIN last.steps :
                    last.steps[i] \in {"nodata_mask", "coh_low_mask", "coh_high_mask"}
                        => i < at
             /\ call.nlooks = last.args.nlooks
             /\ call.cost = last.args.cost
             /\ call.init = last.args.init
             /\ call.kwargs = last.args.kwargs
             /\ call.mask = MaskStep2(last.input.re, last.args)
             /\ call.mask = last.outMask
             /\ last.out = Where(last.unw, call.mask)

C7_Witness ==
    /\ upc = "done"
    /\ last.cell = 23
    /\ last.calls[1].kwargs = TileKwargs
    /\ last.calls[1].mask = <<TRUE>>
    /\ last.out = <<7>>
    /\ snaphuCalls[2].mask[1] /\ ~snaphuCalls[2].mask[NumPixels]
    /\ subset.out["unwrapped_coh"][1] = 7
    /\ IsNaN(subset.out["unwrapped_coh"][NumPixels])

\* C8: in a call with a lower coherence threshold t, every pixel whose
\* coherence is not greater than t is masked and is missing in the output.
C8_OnlyAboveThreshold ==
    (last.cell # 0 /\ last.args.coh_low_threshold # None) =>
        \A i \in DOMAIN last.out :
            ~Ge_strict(last.args.coherence[i], last.args.coh_low_threshold[1])
                => ~last.calls[1].mask[i] /\ IsNaN(last.out[i])

\* C9: in a call with the default mask, every pixel without data (zero, or
\* NaN after ds.where(mask)) is masked and is missing in the output.
C9_DefaultMaskExcludesNoData ==
    (last.cell # 0 /\ last.args.mask = True) =>
        \A i \in DOMAIN last.out :
            (IsNaN(last.input.re[i]) \/ last.input.re[i] = last.args.mask_nodata_value)
                => ~last.calls[1].mask[i] /\ IsNaN(last.out[i])

\* C6: the gamma nought band of notebook 03 is lin2db of notebook 02 applied
\* to gam0_lin, for every pixel, and its linear values are db2lin of the
\* sigma nought band.
C6_ConsistentConversions ==
    dpc.nb03 = "done" =>
        \A p \in DOMAIN d03.gam0_db :
            /\ d03.sig0_lin[p] = db2lin(d03.coef_dc.sig0_gtc[p])
            /\ d03.gam0_db[p] = lin2db(d03.gam0_lin[p])

\* C10: every mean is computed over data in linear scale.
C10_MeansInLinearScale == \A m \in means : m.unit = "lin"

\* the repository tree and the event of a reference run
RefTree == [s \in Sensors |-> <<[path |-> [segs |-> <<s, "a">>, ext |-> ".tif"]]>>]

\* the positions of the entries of a tree that end in .tif, in tree order
TifIndices(t) == SortedSeq({i \in DOMAIN t : t[i].path.ext = ".tif"})

\* the list make_gitlab_urls has to return on the tree t
TifUrls(t) ==
    [k \in DOMAIN TifIndices(t) |->
        <<gitlab_root, QuotePlus(t[TifIndices(t)[k]].path), gitlab_end>>]

\* C4 as stated: the sequence of operations is that of a straight line: it
\* does not depend on the repository tree, and load_image is not invoked on
\* later events nor takes a path that its arguments select.
C4_StraightLine ==
    /\ fpc = "done" =>
           ops04 = make_gitlab_urls("sentinel-1", RefTree).ops \o <<"open_mfdataset">>
                   \o make_gitlab_urls("sentinel-1", RefTree).ops \o <<"open_mfdataset">>
                   \o make_gitlab_urls("alos-2", RefTree).ops \o <<"open_mfdataset">>
    /\ ncalls <= 1
    /\ ncalls > 0 => lastCall.ops = load_image(1, CompleteLandCover, None, None).ops

\* C4, amended: the cells run in document order, and inside them
\* make_gitlab_urls loops over the repository tree and returns one URL per
\* entry that ends in .tif, in tree order, performing one test per entry;
\* load_image runs once when the map is displayed and once per later event,
\* masks by land cover unless the complete land cover is selected, and crops
\* exactly when both ranges are set.
C4_DataDependentFlow ==
    /\ fpc \in {"cell9", "cell15", "done"} => urls[5] = TifUrls(tree["sentinel-1"])
    /\ fpc \in {"cell15", "done"} => urls[9] = TifUrls(tree["sentinel-1"])
    /\ fpc = "done" =>
        /\ urls[15] = TifUrls(tree["alos-2"])
        /\ Len(SelectSeq(ops04, LAMBDA o : o = "endswith"))
               = 2 * Len(tree["sentinel-1"]) + Len(tree["alos-2"])
        /\ Len(SelectSeq(ops04, LAMBDA o : o = "append"))
               = 2 * Len(TifUrls(tree["sentinel-1"])) + Len(TifUrls(tree["alos-2"]))
        /\ Len(SelectSeq(ops04, LAMBDA o : o = "repository_tree")) = 3
    /\ (lpc = "cell21") = (ncalls = 0)
    /\ ncalls > 0 =>
        /\ lastCall.masked = (lastCall.land_cover # CompleteLandCover)
        /\ lastCall.masked => lastCall.land_cover_value = 12
        /\ lastCall.cropped = (lastCall.x_range # None /\ lastCall.y_range # None)
        /\ ("where" \in {lastCall.ops[i] : i \in DOMAIN lastCall.ops}) = lastCall.masked
        /\ ("select" \in {lastCall.ops[i] : i \in DOMAIN lastCall.ops}) = lastCall.cropped

C4_Witness ==
    /\ fpc = "done"
    /\ Len(urls[5]) = 2
    /\ Len(tree["sentinel-1"]) = 2
    /\ Len(tree["alos-2"]) = 2
    /\ urls[15] = <<>>
    /\ ncalls = 3
    /\ lastCall.masked
    /\ lastCall.cropped

\* C11: every bilinear resampling of backscatter is handed linear-scale
\* values and gives what converting to linear scale, resampling and
\* converting back to dB gives.
C11_ResampleInLinear ==
    calc.cell \in {"nb04.19", "nb01.25", "tw.8"} =>
        /\ calc.unit = "lin"
        /\ calc.out = [i \in DOMAIN calc.out |->
                          lin2db(Bilinear(Db2Lin1(calc.src), calc.offset)[i])]

\* C11 as amended: notebook 04 converts to the linear scale, resamples and
\* converts back, so that half a pixel away from two pixels the result is
\* the dB value of the arithmetic mean of their linear values; the loads of
\* notebook 01 and of the team-work notebook ask for bilinear resampling of
\* the stored dB values, which returns the stored values on the native grid
\* and the mean of the dB values half a pixel away from it.
C11_LinearOnlyInNb04 ==
    /\ calc.cell = "nb04.19" =>
        /\ calc.unit = "lin"
        /\ \A i \in DOMAIN calc.out :
              calc.out[i] = IF calc.offset = 0 THEN calc.src[i]
                            ELSE lin2db((db2lin(calc.src[i]) + db2lin(calc.src[i + 1])) \div 2)
    /\ calc.cell \in {"nb01.25", "tw.8"} =>
        /\ calc.unit = "dB"
        /\ \A i \in DOMAIN calc.out :
              calc.out[i] = IF calc.offset = 0 THEN calc.src[i]
                            ELSE (calc.src[i] + calc.src[i + 1]) \div 2

C11_Witness ==
    /\ calc.cell = "nb04.19"
    /\ calc.offset = 5
    /\ calc.src[1] = -10000 /\ calc.src[2] = 0
    /\ calc.resampled[1] = 550000
    /\ calc.out[1] = -2600

\* C12: lin2db and db2lin are inverse to each other: db2lin(lin2db(I)) = I
\* for every positive I, and lin2db(db2lin(D)) = D for every D, exactly
\* where D is a value of the logarithm table and to the step of the table
\* elsewhere.
C12_Inverse ==
    /\ calc.cell = "lin2db" =>
        /\ calc.arg > 0
        /\ db2lin(calc.out) = calc.arg
        /\ lin2db(db2lin(calc.out)) = calc.out
    /\ calc.cell = "db2lin" =>
        /\ calc.out > 0
        /\ lin2db(calc.out) <= calc.arg
        /\ calc.arg - lin2db(calc.out) < DbResolution
        /\ db2lin(lin2db(calc.out)) = calc.out

C12_Witness ==
    /\ calc.cell = "lin2db"
    /\ calc.arg = 2 * One
    /\ calc.out = 3010
    /\ db2lin(calc.out) = 2 * One

\* C13: adding two values in dB multiplies their linear values and
\* subtracting them divides their linear values:
\* db2lin(a + b) = db2lin(a) * db2lin(b), db2lin(a - b) = db2lin(a) / db2lin(b).
C13_AddIsMultiply ==
    calc.cell = "nb02.12" =>
        /\ calc.val1_lin > 0 /\ calc.val2_lin > 0
        /\ db2lin(calc.sum_db) = LinMul(calc.val1_lin, calc.val2_lin)
        /\ db2lin(calc.val1_db - calc.val2_db) = LinDiv(calc.val1_lin, calc.val2_lin)

C13_Witness ==
    /\ calc.cell = "nb02.12"
    /\ calc.val1_db = 3010 /\ calc.val2_db = 6990
    /\ calc.val1_lin = 2 * One /\ calc.val2_lin = 5 * One
    /\ db2lin(calc.sum_db) = 10 * One
    /\ calc.sum_lin = 7 * One

\* C14 as stated: after cell 17 of notebook 02 the dB value of the mean of
\* the linear values differs from the mean of the dB values, whatever the
\* array.
C14_MeansDiffer ==
    dpc.nb02 = "done" => d02.db_from_lin_mean.v # d02.db_mean.v

\* C14 as amended: lin2db(mean(db2lin(values))) equals mean(values) when all
\* values of the array are equal, and is larger than mean(values) otherwise.
C14_LinearMeanIsLarger ==
    dpc.nb02 = "done" =>
        LET vals == d02.db_array.v
        IN  /\ d02.lin_array.v = [p \in DOMAIN vals |-> db2lin(vals[p])]
            /\ IF \A p \in DOMAIN vals : vals[p] = vals[1]
               THEN d02.db_from_lin_mean.v = d02.db_mean.v
               ELSE d02.db_from_lin_mean.v > d02.db_mean.v

C14_Witness ==
    /\ dpc.nb02 = "done"
    /\ d02.db_array.v[1] = -10000 /\ d02.db_array.v[NumCells] = 0
    /\ d02.lin_array.v[1] = One \div 10 /\ d02.lin_array.v[NumCells] = One
    /\ d02.db_from_lin_mean.v > d02.db_mean.v

\* C15: the monthly median computed on the dB samples equals lin2db of the
\* median of the samples converted by db2lin, whatever the number of
\* samples of the month.
C15_MedianCommutes ==
    (calc.cell = "nb04.27" /\ ~IsNaN(calc.out)) =>
        calc.out = lin2db(nanmedian([k \in DOMAIN calc.samples |->
                                        IF IsNaN(calc.samples[k]) THEN NaN
                                        ELSE db2lin(calc.samples[k])]))

\* C16: after the monthly resampling of cell 14 of notebook 02 the dataset
\* has 12 timestamps, one for each month of a year, and no month twice.
C16_TwelveTimestamps ==
    dpc.nb02 \in {"cell16", "cell17", "done"} =>
        /\ Len(d02.sig0_monthly.months) = 12
        /\ \A i \in DOMAIN d02.sig0_monthly.months : d02.sig0_monthly.months[i] = i
        /\ d02.sig0_monthly.months = d02.sig0_lin_monthly.months

====
